---- MODULE Spec2Model ----
(***************************************************************************)
(* A model of crates/generate-raw/src/lib.rs: the renderer that turns a    *)
(* parsed witx document into Rust declarations, the alias resolver, and    *)
(* the exchange between `generate` and the rustfmt subprocess.             *)
(*                                                                         *)
(* The output buffer (`raw`, `src` in the code) is a sequence of text      *)
(* pieces; the emitted text is their concatenation.  One piece is one      *)
(* push_str argument, or one literal or one argument of a format! string.  *)
(* A panic (unreachable!, panic!, a failed assert!, a shift overflow in a  *)
(* debug build) is the piece Panic: the action that renders sees it and    *)
(* aborts the run without output.                                          *)
(***************************************************************************)
EXTENDS Integers, Sequences, FiniteSets, TLC

VARIABLES
    doc,      \* the witx Document: [datatypes, modules]
    build,    \* "debug" or "release": decides what an overflowing shift does
    pc,       \* position of the running operation
    ti,       \* how many datatypes / modules the walker has rendered
    raw,      \* the output buffer
    func,     \* the InterfaceFunc being rendered on its own
    fl,       \* the FlagsDatatype being rendered on its own
    rin,      \* resolve: the DatatypeIdent of the outermost call
    rcur,     \* resolve: the argument of the current (innermost) call
    rfirst,   \* resolve: what the first outermost call returned
    rround,   \* resolve: 1 for resolve(t), 2 for resolve(resolve(t))
    pipe      \* generate and rustfmt around the two pipes

vars == <<doc, build, pc, ti, raw, func, fl, rin, rcur, rfirst, rround, pipe>>

(***************************************************************************)
(* Bounds of the model.                                                    *)
(***************************************************************************)
MaxDatatypes == 3   \* datatypes in a document walked by generate
MaxParams == 2      \* declared parameters of a function
MaxResults == 3     \* declared results of a function
MaxFlags == 34      \* variants of a Flags datatype
NumAliases == 3     \* datatypes of a document given to resolve
MaxText == 5        \* bytes of generated text written to rustfmt
MaxCap == 2         \* capacity of a pipe, in bytes

(***************************************************************************)
(* witx data model (the types the code matches on).                        *)
(***************************************************************************)
Builtin(b) == [k |-> "Builtin", b |-> b]
Pointer(t) == [k |-> "Pointer", to |-> t]
ConstPointer(t) == [k |-> "ConstPointer", to |-> t]
Array(t) == [k |-> "Array", to |-> t]
Ident(n) == [k |-> "Ident", name |-> n]

Alias(to) == [kind |-> "Alias", to |-> to]
Enum(repr, vs) == [kind |-> "Enum", repr |-> repr, variants |-> vs]
Flags(repr, fs) == [kind |-> "Flags", repr |-> repr, flags |-> fs]
Struct(ms) == [kind |-> "Struct", members |-> ms]
Union(vs) == [kind |-> "Union", variants |-> vs]
Handle == [kind |-> "Handle"]

Dt(n, v) == [name |-> n, variant |-> v]
Field(n, t) == [name |-> n, type_ |-> t]
Param(n, t) == [name |-> n, type_ |-> t, position |-> "Param"]
Result(n, t) == [name |-> n, type_ |-> t, position |-> "Result"]

IntReprs == {"U8", "U16", "U32", "U64"}
Builds == {"debug", "release"}

\* DatatypeIdent::Ident holds the Datatype it names; here the name is looked
\* up in the document.
Datatype(n) ==
    doc.datatypes[CHOOSE i \in DOMAIN doc.datatypes : doc.datatypes[i].name = n]

(***************************************************************************)
(* Library functions the code calls.                                       *)
(***************************************************************************)
\* witx: DatatypeIdent::passed_by / Datatype::passed_by.
RECURSIVE passed_by(_)
passed_by(ty) ==
    CASE ty.k = "Builtin" ->
            IF ty.b = "String" THEN "PointerLengthPair" ELSE "Value"
      [] ty.k = "Array" -> "PointerLengthPair"
      [] ty.k \in {"Pointer", "ConstPointer"} -> "Value"
      [] ty.k = "Ident" ->
            LET v == Datatype(ty.name).variant IN
            CASE v.kind = "Alias" -> passed_by(v.to)
              [] v.kind \in {"Enum", "Flags", "Handle"} -> "Value"
              [] v.kind \in {"Struct", "Union"} -> "Pointer"

\* heck: to_shouty_snake_case, on the names the model uses.
to_shouty_snake_case(s) ==
    CASE s = "errno" -> "ERRNO"
      [] s = "rights" -> "RIGHTS"
      [] s = "success" -> "SUCCESS"
      [] s = "in" -> "IN"
      [] s = "fd_read" -> "FD_READ"
      [] s = "fd_write" -> "FD_WRITE"
      [] s = "x" -> "X"

(***************************************************************************)
(* Text helpers.                                                           *)
(***************************************************************************)
Panic == "<panic>"

Panicked(src) == \E i \in DOMAIN src : src[i] = Panic

RECURSIVE Join(_)
Join(toks) == IF toks = <<>> THEN "" ELSE Head(toks) \o Join(Tail(toks))

RECURSIVE Zeros(_)
Zeros(n) == IF n = 0 THEN "" ELSE "0" \o Zeros(n - 1)

\* format!("{:x}", v) for the integer whose only set bit is bit k.
LowerHexOfBit(k) == <<"1", "2", "4", "8">>[(k % 4) + 1] \o Zeros(k \div 4)

\* format!("{}", i) for the small ordinals the model reaches.
Decimal(i) ==
    LET d == <<"0", "1", "2", "3", "4", "5", "6", "7", "8", "9">> IN
    IF i < 10 THEN d[i + 1] ELSE d[(i \div 10) + 1] \o d[(i % 10) + 1]

(***************************************************************************)
(* fn resolve                                                              *)
(***************************************************************************)
\* (resolveStep that never follows an alias: the mutant C9 is tried against.)
resolveStepShallow(ty) == [call |-> FALSE, ty |-> ty]

\* One activation of resolve: either it calls itself on a.to, or it returns ty.
resolveStep(ty) ==
    IF ty.k = "Ident" /\ Datatype(ty.name).variant.kind = "Alias"
    THEN [call |-> TRUE, ty |-> Datatype(ty.name).variant.to]
    ELSE [call |-> FALSE, ty |-> ty]

\* resolve as a function, for the documents on which it returns.
RECURSIVE resolve(_)
resolve(ty) ==
    LET s == resolveStep(ty) IN IF s.call THEN resolve(s.ty) ELSE s.ty

(***************************************************************************)
(* impl Render for ...                                                     *)
(***************************************************************************)
\* (Id_render without its two escapes: the mutant C7 is tried against.)
Id_render_noescape(s) == <<s>>

Id_render(s) ==
    CASE s = "in" -> <<"r#in">>
      [] s = "type" -> <<"r#type">>
      [] OTHER -> <<s>>

BuiltinType_render(b) ==
    CASE b = "String" -> <<"str">>
      [] b = "U8" -> <<"u8">>
      [] b = "U16" -> <<"u16">>
      [] b = "U32" -> <<"u32">>
      [] b = "U64" -> <<"u64">>
      [] b = "S8" -> <<"i8">>
      [] b = "S16" -> <<"i16">>
      [] b = "S32" -> <<"i32">>
      [] b = "S64" -> <<"i64">>
      [] b = "F32" -> <<"f32">>
      [] b = "F64" -> <<"f64">>

IntRepr_render(r) ==
    CASE r = "U8" -> <<"u8">>
      [] r = "U16" -> <<"u16">>
      [] r = "U32" -> <<"u32">>
      [] r = "U64" -> <<"u64">>

RECURSIVE DatatypeIdent_render(_)
DatatypeIdent_render(ty) ==
    CASE ty.k = "Builtin" -> BuiltinType_render(ty.b)
      [] ty.k = "Array" -> <<Panic>>
      [] ty.k = "Pointer" -> <<"*mut ">> \o DatatypeIdent_render(ty.to)
      [] ty.k = "ConstPointer" -> <<"*const ">> \o DatatypeIdent_render(ty.to)
      [] ty.k = "Ident" -> <<"__wasi_", ty.name, "_t">>

\* The loop over the members of a struct or the variants of a union.
RECURSIVE FieldsLoop(_)
FieldsLoop(ms) ==
    IF ms = <<>> THEN <<>>
    ELSE <<"pub ">> \o Id_render(Head(ms).name) \o <<": ">>
         \o DatatypeIdent_render(Head(ms).type_) \o <<",\n">>
         \o FieldsLoop(Tail(ms))

UnionDatatype_render(d) ==
    <<"#[repr(C)]\n", "#[derive(Copy, Clone)]\n", "pub union __wasi_", d.name, "_t {\n">>
    \o FieldsLoop(d.variant.variants) \o <<"}">>

StructDatatype_render(d) ==
    <<"#[repr(C)]\n", "#[derive(Copy, Clone)]\n", "pub struct __wasi_", d.name, "_t {\n">>
    \o FieldsLoop(d.variant.members) \o <<"}">>

\* `1 << i` with i: usize and the literal defaulting to i32: the bit that is
\* set in the result, or a panic.  A shift by 32 or more overflows: a build
\* with overflow checks panics, one without masks the shift amount to 5 bits.
Shl1(i, b) ==
    IF i < 32 THEN [panic |-> FALSE, bit |-> i]
    ELSE IF b = "debug" THEN [panic |-> TRUE, bit |-> 0]
    ELSE [panic |-> FALSE, bit |-> i % 32]

RECURSIVE FlagsLoop(_, _, _, _)
FlagsLoop(name, fs, i, b) ==
    IF i >= Len(fs) THEN <<>>
    ELSE LET sh == Shl1(i, b) IN
         IF sh.panic THEN <<Panic>>
         ELSE <<"pub const __WASI_", to_shouty_snake_case(name), "_",
                to_shouty_snake_case(fs[i + 1]), ": __wasi_", name, "_t = 0x",
                LowerHexOfBit(sh.bit), ";">>
              \o FlagsLoop(name, fs, i + 1, b)

FlagsDatatype_render(d, b) ==
    <<"pub type __wasi_", d.name, "_t = ">> \o IntRepr_render(d.variant.repr)
    \o <<";\n">> \o FlagsLoop(d.name, d.variant.flags, 0, b)

RECURSIVE EnumLoop(_, _, _)
EnumLoop(name, vs, i) ==
    IF i >= Len(vs) THEN <<>>
    ELSE <<"pub const __WASI_", to_shouty_snake_case(name), "_",
           to_shouty_snake_case(vs[i + 1]), ": __wasi_", name, "_t = ",
           Decimal(i), ";">>
         \o EnumLoop(name, vs, i + 1)

EnumDatatype_render(d) ==
    <<"pub type __wasi_", d.name, "_t = ">> \o IntRepr_render(d.variant.repr)
    \o <<";\n">> \o EnumLoop(d.name, d.variant.variants, 0)

\* (AliasDatatype_render without the early return: the mutant C6 is tried
\* against.)
AliasDatatype_render_nosuppress(d) ==
    <<"pub type __wasi_", d.name, "_t = ">>
    \o (IF d.name = "size" THEN <<"usize">> ELSE DatatypeIdent_render(d.variant.to))
    \o <<";">>

AliasDatatype_render(d) ==
    IF passed_by(d.variant.to) = "PointerLengthPair" THEN <<>>
    ELSE <<"pub type __wasi_", d.name, "_t = ">>
         \o (IF d.name = "size" THEN <<"usize">> ELSE DatatypeIdent_render(d.variant.to))
         \o <<";">>

HandleDatatype_render(d) == <<"pub type __wasi_", d.name, "_t = u32;">>

Datatype_render(d, b) ==
    CASE d.variant.kind = "Alias" -> AliasDatatype_render(d)
      [] d.variant.kind = "Enum" -> EnumDatatype_render(d)
      [] d.variant.kind = "Flags" -> FlagsDatatype_render(d, b)
      [] d.variant.kind = "Struct" -> StructDatatype_render(d)
      [] d.variant.kind = "Union" -> UnionDatatype_render(d)
      [] d.variant.kind = "Handle" -> HandleDatatype_render(d)

\* (PairElement with a string's element rendered as the builtin renders: the
\* mutant C5 is tried against.)
PairElement_str(r) ==
    CASE r.k = "Array" -> DatatypeIdent_render(r.to)
      [] r.k = "Builtin" /\ r.b = "String" -> <<"str">>
      [] OTHER -> <<Panic>>

\* The match on resolve(&self.type_) of a pointer+length-pair parameter.
PairElement(r) ==
    CASE r.k = "Array" -> DatatypeIdent_render(r.to)
      [] r.k = "Builtin" /\ r.b = "String" -> <<"u8">>
      [] OTHER -> <<Panic>>

InterfaceFuncParam_render(p) ==
    LET is_param == p.position = "Param"
        by == passed_by(p.type_)
        named == IF is_param THEN Id_render(p.name) \o <<": ">> ELSE <<>>
    IN  CASE by = "Value" -> named \o DatatypeIdent_render(p.type_)
          [] by = "Pointer" -> named \o <<"*mut ">> \o DatatypeIdent_render(p.type_)
          [] by = "PointerLengthPair" ->
                IF ~is_param THEN <<Panic>>
                ELSE <<p.name, "_ptr", ": ", "*const ">>
                     \o PairElement(resolve(p.type_))
                     \o <<", ", p.name, "_len", ": ", "usize">>

RECURSIVE ParamsLoop(_)
ParamsLoop(ps) ==
    IF ps = <<>> THEN <<>>
    ELSE InterfaceFuncParam_render(Head(ps)) \o <<",">> \o ParamsLoop(Tail(ps))

RECURSIVE OutParamsLoop(_)
OutParamsLoop(rs) ==
    IF rs = <<>> THEN <<>>
    ELSE Id_render(Head(rs).name) \o <<": *mut ">>
         \o DatatypeIdent_render(Head(rs).type_) \o <<",">>
         \o OutParamsLoop(Tail(rs))

\* (SkipFirst without the skip: the mutant C4 is tried against.)
SkipFirst_none(rs) == rs

\* self.results.iter().skip(1)
SkipFirst(rs) == IF rs = <<>> THEN <<>> ELSE Tail(rs)

InterfaceFunc_render(f) ==
    <<"#[link_name = \"", f.name, "\"]\n", "pub fn __wasi_", f.name, "(">>
    \o ParamsLoop(f.params)
    \o OutParamsLoop(SkipFirst(f.results))
    \o <<")">>
    \o (IF f.results # <<>>
        THEN <<" -> ">> \o InterfaceFuncParam_render(f.results[1])
        ELSE IF f.name = "proc_exit" THEN <<" -> !">> ELSE <<>>)
    \o <<";">>

RECURSIVE FuncsLoop(_)
FuncsLoop(fs) ==
    IF fs = <<>> THEN <<>>
    ELSE InterfaceFunc_render(Head(fs)) \o <<"\n">> \o FuncsLoop(Tail(fs))

Module_render(m) ==
    <<"#[link(wasm_import_module =\"", m.name, "\")]\n", "extern \"C\" {\n">>
    \o FuncsLoop(m.funcs) \o <<"}">>

(***************************************************************************)
(* Documents.  A document is what witx::load returns: its datatypes are    *)
(* declared before they are named, so no alias chain has a cycle, and the  *)
(* first result of a function is passed by value.  Array appears as the    *)
(* target of an alias or as the type of a parameter only.                  *)
(***************************************************************************)
U8 == Builtin("U8")
U16 == Builtin("U16")
U32 == Builtin("U32")
String == Builtin("String")

\* The datatypes documents are drawn from, in declaration order.
Pool ==
    << Dt("size", Alias(U32)),
       Dt("size", Alias(String)),
       Dt("errno", Enum("U16", <<"success", "in">>)),
       Dt("rights", Flags("U64", <<"fd_read", "fd_write">>)),
       Dt("fd", Handle),
       Dt("path", Alias(String)),
       Dt("path2", Alias(Ident("path"))),
       Dt("ciovec", Struct(<<Field("buf", ConstPointer(U8)), Field("type", Ident("size"))>>)),
       Dt("ciovec_array", Alias(Array(Ident("ciovec")))),
       Dt("bytes", Alias(Array(U8))),
       Dt("event_u", Union(<<Field("in", Ident("fd")), Field("ptr", Pointer(Ident("errno")))>>)),
       Dt("dirent", Struct(<<Field("in", U32), Field("name", Ident("path2"))>>)),
       Dt("e2", Alias(Ident("errno"))),
       Dt("iovp", Alias(ConstPointer(Ident("ciovec")))),
       Dt("sub", Alias(Ident("ciovec"))) >>

\* The names of the datatypes a DatatypeIdent mentions.
RECURSIVE IdentsOf(_)
IdentsOf(ty) ==
    CASE ty.k = "Builtin" -> {}
      [] ty.k = "Ident" -> {ty.name}
      [] OTHER -> IdentsOf(ty.to)

FieldIdents(ms) == UNION {IdentsOf(ms[i].type_) : i \in DOMAIN ms}

DatatypeIdents(d) ==
    CASE d.variant.kind = "Alias" -> IdentsOf(d.variant.to)
      [] d.variant.kind = "Struct" -> FieldIdents(d.variant.members)
      [] d.variant.kind = "Union" -> FieldIdents(d.variant.variants)
      [] OTHER -> {}

\* The subsequence of Pool at the indices in S.
RECURSIVE Pick(_, _)
Pick(S, i) ==
    IF i > Len(Pool) THEN <<>>
    ELSE (IF i \in S THEN <<Pool[i]>> ELSE <<>>) \o Pick(S, i + 1)

WellFormed(S) ==
    /\ Cardinality(S) <= MaxDatatypes
    /\ \A i, j \in S : Pool[i].name = Pool[j].name => i = j
    /\ \A i \in S : \A n \in DatatypeIdents(Pool[i]) :
            \E j \in S : j < i /\ Pool[j].name = n

DatatypeLists == {Pick(S, 1) : S \in {T \in SUBSET DOMAIN Pool : WellFormed(T)}}

ByValueNames(ds) ==
    {ds[i].name : i \in {j \in DOMAIN ds : ds[j].variant.kind \in {"Enum", "Flags", "Handle"}}}

\* The functions of a walked document: one parameter and two results at most.
WalkedParams(ds) ==
    {<<>>} \cup
    {<<Param(n, t)>> : n \in {"in", "buf"},
                       t \in {U32, String} \cup {Ident(ds[i].name) : i \in DOMAIN ds}}

WalkedResults(ds) ==
    {<<>>} \cup
    {<<Result("error", t)>> : t \in {U16} \cup {Ident(n) : n \in ByValueNames(ds)}} \cup
    {<<Result("error", U16), Result(n, U32)>> : n \in {"type", "nread"}}

WalkedFuncs(ds) ==
    [name : {"in", "fd_read"}, params : WalkedParams(ds), results : WalkedResults(ds)]

ProcExit == [name |-> "proc_exit", params |-> <<Param("rval", U32)>>, results |-> <<>>]

ModuleLists(ds) ==
    {<<>>} \cup
    {<<[name |-> "wasi_snapshot_preview1", funcs |-> fs]>> :
        fs \in {<<>>} \cup {<<f>> : f \in WalkedFuncs(ds)}
               \cup {<<f, ProcExit>> : f \in {g \in WalkedFuncs(ds) : g.params = <<>>}}}

Documents ==
    UNION {{[datatypes |-> ds, modules |-> ms] : ms \in ModuleLists(ds)} : ds \in DatatypeLists}

(***************************************************************************)
(* generate, lines 10-28: the walk over the document.                      *)
(***************************************************************************)
\* The fixed header (the two backquotes of the source text are written as
\* apostrophes: a TLA+ string holds no backquote).
Header ==
    "// This file is automatically generated, DO NOT EDIT\n//\n// To regenerate this file run the 'crates/generate-raw' command\n\n#![allow(non_camel_case_types)]\n\n"

NoDoc == [datatypes |-> <<>>, modules |-> <<>>]
NoFunc == [name |-> "", params |-> <<>>, results |-> <<>>]
NoFlags == Dt("", Flags("U8", <<>>))
NoType == Builtin("U8")
NoPipe == [gen |-> "idle"]

Init ==
    /\ doc \in Documents
    /\ build \in Builds
    /\ pc = "datatypes"
    /\ ti = 0
    /\ raw = <<Header>>
    /\ func = NoFunc /\ fl = NoFlags
    /\ rin = NoType /\ rcur = NoType /\ rfirst = NoType /\ rround = 0
    /\ pipe = NoPipe

\* for ty in doc.datatypes() { ty.render(&mut raw); raw.push_str("\n"); }
RenderDatatype ==
    /\ pc = "datatypes"
    /\ ti < Len(doc.datatypes)
    /\ LET out == Datatype_render(doc.datatypes[ti + 1], build) IN
       IF Panicked(out)
       THEN pc' = "panicked" /\ raw' = <<>> /\ ti' = ti
       ELSE pc' = pc /\ raw' = raw \o out \o <<"\n">> /\ ti' = ti + 1
    /\ UNCHANGED <<doc, build, func, fl, rin, rcur, rfirst, rround, pipe>>

DatatypesDone ==
    /\ pc = "datatypes"
    /\ ti = Len(doc.datatypes)
    /\ pc' = "modules"
    /\ ti' = 0
    /\ UNCHANGED <<doc, build, raw, func, fl, rin, rcur, rfirst, rround, pipe>>

\* for m in doc.modules() { m.render(&mut raw); raw.push_str("\n"); }
RenderModule ==
    /\ pc = "modules"
    /\ ti < Len(doc.modules)
    /\ LET out == Module_render(doc.modules[ti + 1]) IN
       IF Panicked(out)
       THEN pc' = "panicked" /\ raw' = <<>> /\ ti' = ti
       ELSE pc' = pc /\ raw' = raw \o out \o <<"\n">> /\ ti' = ti + 1
    /\ UNCHANGED <<doc, build, func, fl, rin, rcur, rfirst, rround, pipe>>

\* The text is complete and goes to rustfmt.
ModulesDone ==
    /\ pc = "modules"
    /\ ti = Len(doc.modules)
    /\ pc' = "rustfmt"
    /\ UNCHANGED <<doc, build, ti, raw, func, fl, rin, rcur, rfirst, rround, pipe>>

Next == RenderDatatype \/ DatatypesDone \/ RenderModule \/ ModulesDone

Spec == Init /\ [][Next]_vars

(***************************************************************************)
(* Reading the emitted text back.                                          *)
(***************************************************************************)
\* The positions of src, ascending, at which Test holds.
Where(src, Test(_)) == SelectSeq([i \in 1..Len(src) |-> i], Test)

\* The pieces that directly follow a piece of M, in order.
After(src, M) ==
    LET Test(i) == i < Len(src) /\ src[i] \in M
        at == Where(src, Test)
    IN  [j \in DOMAIN at |-> src[at[j] + 1]]

\* The pieces that directly precede a piece of M, in order.
Before(src, M) ==
    LET Test(i) == i > 1 /\ src[i] \in M
        at == Where(src, Test)
    IN  [j \in DOMAIN at |-> src[at[j] - 1]]

Count(src, M) == Cardinality({i \in DOMAIN src : src[i] \in M})

\* The positions of the piece p, ascending.
Positions(src, p) == LET Test(i) == src[i] = p IN Where(src, Test)

\* The parameter list of the k-th function declaration: what stands between
\* its "(" and its ")".
ParamList(src, k) ==
    SubSeq(src, Positions(src, "(")[k] + 1, Positions(src, ")")[k] - 1)

\* What follows the ")" of the k-th function declaration up to its ";".
ReturnPart(src, k) ==
    LET from == Positions(src, ")")[k] + 1
        to == CHOOSE j \in from..Len(src) :
                  src[j] = ";" /\ \A h \in from..(j - 1) : src[h] # ";"
    IN  SubSeq(src, from, to - 1)

\* A parameter list cut at its commas: one sequence of pieces per ABI parameter.
RECURSIVE SplitParams(_, _, _)
SplitParams(toks, cur, acc) ==
    IF toks = <<>> THEN (IF cur = <<>> THEN acc ELSE Append(acc, cur))
    ELSE IF Head(toks) \in {",", ", "}
         THEN SplitParams(Tail(toks), <<>>, Append(acc, cur))
         ELSE SplitParams(Tail(toks), Append(cur, Head(toks)), acc)

\* One ABI parameter `name: type` as [name, type], both as text.
AbiParam(g) ==
    LET c == CHOOSE i \in DOMAIN g :
                 g[i] \in {": ", ": *mut "} /\ \A h \in 1..(i - 1) : g[h] \notin {": ", ": *mut "}
    IN  [name |-> Join(SubSeq(g, 1, c - 1)),
         type |-> (IF g[c] = ": *mut " THEN "*mut " ELSE "") \o Join(SubSeq(g, c + 1, Len(g)))]

AbiParams(src, k) ==
    LET gs == SplitParams(ParamList(src, k), <<>>, <<>>) IN
    [i \in DOMAIN gs |-> AbiParam(gs[i])]

\* The names of the types the text declares, and of the types it refers to.
DeclaredTypes(src) ==
    LET a == After(src, {"pub type __wasi_", "pub struct __wasi_", "pub union __wasi_"})
    IN  {a[i] : i \in DOMAIN a}

ReferencedTypes(src) ==
    LET a == After(src, {"__wasi_", ": __wasi_"}) IN {a[i] : i \in DOMAIN a}

ReservedWords == {"in", "type"}

Escaped(s) == IF s \in ReservedWords THEN "r#" \o s ELSE s

\* The text of a type that renders without a panic.
TypeText(ty) == Join(DatatypeIdent_render(ty))

IsAlias(d) == d.variant.kind = "Alias"
Suppressed(d) == IsAlias(d) /\ passed_by(d.variant.to) = "PointerLengthPair"

(***************************************************************************)
(* Properties of the walk (specification Spec).                            *)
(***************************************************************************)
\* What the step appended to the buffer.
Appended == SubSeq(raw', Len(raw) + 1, Len(raw'))

\* The step is one iteration of the loop over the datatypes.
WalkedDatatype == pc = "datatypes" /\ ti' = ti + 1

NewlinePieces ==
    {"\n", ";\n", ",\n", "_t {\n", "#[repr(C)]\n", "#[derive(Copy, Clone)]\n"}

\* c is exactly one line `pub type __wasi_<name>_t = <type>;`.
IsOneAliasLine(c, d) ==
    /\ Len(c) >= 5
    /\ c[1] = "pub type __wasi_" /\ c[2] = d.name /\ c[3] = "_t = "
    /\ c[Len(c)] = ";"
    /\ Count(c, {"pub type __wasi_"}) = 1
    /\ Count(c, {";"}) = 1
    /\ Count(c, NewlinePieces) = 0

\* C6 as claimed: an alias whose target is passed as a pointer+length pair
\* adds nothing to the text, also counting what the walker appends for it;
\* any other alias adds exactly one type-alias line.
C6_AsClaimed ==
    [][WalkedDatatype /\ IsAlias(doc.datatypes[ti + 1]) =>
         IF Suppressed(doc.datatypes[ti + 1])
         THEN Appended = <<>>
         ELSE /\ Appended # <<>>
              /\ IsOneAliasLine(SubSeq(Appended, 1, Len(Appended) - 1), doc.datatypes[ti + 1])]_vars

\* C6 (amended): the render of an alias whose target is passed as a
\* pointer+length pair is empty and the render of any other alias is exactly
\* one type-alias line; the walker appends its "\n" after either, so its own
\* contribution for a suppressed alias is that one newline.
C6_AliasSuppression ==
    [][WalkedDatatype /\ IsAlias(doc.datatypes[ti + 1]) =>
         /\ Appended # <<>>
         /\ Appended[Len(Appended)] = "\n"
         /\ IF Suppressed(doc.datatypes[ti + 1])
            THEN Appended = <<"\n">>
            ELSE IsOneAliasLine(SubSeq(Appended, 1, Len(Appended) - 1), doc.datatypes[ti + 1])]_vars

\* A walk that has passed a suppressed alias and an alias that is not.
C6_Witness ==
    /\ pc = "modules"
    /\ \E i, j \in DOMAIN doc.datatypes :
          /\ Suppressed(doc.datatypes[i])
          /\ IsAlias(doc.datatypes[j]) /\ ~Suppressed(doc.datatypes[j])
          /\ doc.datatypes[j].name # "size"

\* The members of the structs and the variants of the unions, in document order.
RECURSIVE AllFields(_)
AllFields(ds) ==
    IF ds = <<>> THEN <<>>
    ELSE (CASE Head(ds).variant.kind = "Struct" -> Head(ds).variant.members
            [] Head(ds).variant.kind = "Union" -> Head(ds).variant.variants
            [] OTHER -> <<>>) \o AllFields(Tail(ds))

RECURSIVE AllFuncs(_)
AllFuncs(ms) == IF ms = <<>> THEN <<>> ELSE Head(ms).funcs \o AllFuncs(Tail(ms))

\* The names of the ABI parameters a function is to declare.
RECURSIVE ParamNames(_)
ParamNames(ps) ==
    IF ps = <<>> THEN <<>>
    ELSE (IF passed_by(Head(ps).type_) = "PointerLengthPair"
          THEN <<Head(ps).name \o "_ptr", Head(ps).name \o "_len">>
          ELSE <<Escaped(Head(ps).name)>>) \o ParamNames(Tail(ps))

OutParamNames(rs) == [i \in 1..(Len(rs) - 1) |-> Escaped(rs[i + 1].name)]

AbiNames(src, k) == LET a == AbiParams(src, k) IN [i \in DOMAIN a |-> a[i].name]

FieldNamePieces(src) == After(src, {"pub "})
FuncNamePieces(src) == After(src, {"pub fn __wasi_"})
PairNamePieces(src) == Before(src, {"_ptr", "_len"})

InSeq(q) == {q[i] : i \in DOMAIN q}

\* C7 as claimed: no field, parameter, out-parameter or function name that is
\* a reserved word is emitted bare, the declared name of a function and the
\* name part of a pointer+length-pair parameter included.
C7_AsClaimed ==
    pc = "rustfmt" =>
        /\ InSeq(FieldNamePieces(raw)) \cap ReservedWords = {}
        /\ InSeq(FuncNamePieces(raw)) \cap ReservedWords = {}
        /\ InSeq(PairNamePieces(raw)) \cap ReservedWords = {}
        /\ \A k \in DOMAIN AllFuncs(doc.modules) :
              InSeq(AbiNames(raw, k)) \cap ReservedWords = {}

\* C7 (amended): a struct or union field name, the name of a by-value or
\* single-pointer parameter and an out-parameter name that is `in` or `type`
\* is emitted as `r#in` / `r#type`; the declared name of a function is emitted
\* as written after the prefix `__wasi_`, and the name of a pointer+length-pair
\* parameter as written before `_ptr` and `_len`, neither with the escape.
C7_Escaping ==
    pc = "rustfmt" =>
        LET fields == AllFields(doc.datatypes)
            funcs == AllFuncs(doc.modules)
        IN  /\ FieldNamePieces(raw) = [i \in DOMAIN fields |-> Escaped(fields[i].name)]
            /\ FuncNamePieces(raw) = [k \in DOMAIN funcs |-> funcs[k].name]
            /\ \A k \in DOMAIN funcs :
                  AbiNames(raw, k)
                      = ParamNames(funcs[k].params) \o OutParamNames(funcs[k].results)

\* A finished walk over a struct field, a function, a by-value parameter, and
\* an out-parameter that are all named by a reserved word.
C7_Witness ==
    /\ pc = "rustfmt"
    /\ \E i \in DOMAIN AllFields(doc.datatypes) :
          AllFields(doc.datatypes)[i].name \in ReservedWords
    /\ \E k \in DOMAIN AllFuncs(doc.modules) :
          LET f == AllFuncs(doc.modules)[k] IN
          /\ f.name \in ReservedWords
          /\ Len(f.params) = 1 /\ f.params[1].name \in ReservedWords
          /\ passed_by(f.params[1].type_) # "PointerLengthPair"
          /\ Len(f.results) = 2 /\ f.results[2].name \in ReservedWords

\* C10 as claimed: every type `__wasi_<X>_t` the finished text refers to is
\* declared in the text.
C10_AsClaimed ==
    pc = "rustfmt" => ReferencedTypes(raw) \subseteq DeclaredTypes(raw)

(***************************************************************************)
(* impl Render for InterfaceFunc, applied to one function (SpecFunc).      *)
(***************************************************************************)
\* The document the function's types are declared in.
EnvDoc ==
    [datatypes |-> Pick(DOMAIN Pool \ {2}, 1), modules |-> <<>>]

SeqsUpTo(S, n) == UNION {[1..k -> S] : k \in 0..n}

ParamTypes ==
    {U32, ConstPointer(U8), Ident("errno"), Ident("ciovec"),
     String, Ident("path2"), Array(U8), Ident("ciovec_array")}

ParamLists ==
    SeqsUpTo({Param(n, t) : n \in {"in", "path"}, t \in ParamTypes}, MaxParams)

\* The first result is passed by value (witx rejects any other).
FirstResults == {Result("error", t) : t \in {Ident("errno"), U32}}

LaterResults ==
    {Result(n, t) : n \in {"type", "nread"}, t \in {U32, Ident("ciovec"), Ident("fd")}}

ResultLists ==
    {<<>>} \cup
    {<<r>> \o rs : r \in FirstResults, rs \in SeqsUpTo(LaterResults, MaxResults - 1)}

FewParamLists == {<<>>, <<Param("path", String)>>}

FewResultLists ==
    {<<>>, <<Result("error", Ident("errno"))>>,
     <<Result("error", Ident("errno")), Result("type", U32)>>}

\* Every parameter list with a few result lists, and every result list with
\* a few parameter lists.
Funcs ==
    [name : {"proc_exit", "fd_read"}, params : ParamLists, results : FewResultLists]
    \cup [name : {"proc_exit", "fd_read"}, params : FewParamLists, results : ResultLists]

InitFunc ==
    /\ doc = EnvDoc
    /\ build \in Builds
    /\ func \in Funcs
    /\ pc = "func"
    /\ ti = 0
    /\ raw = <<>>
    /\ fl = NoFlags
    /\ rin = NoType /\ rcur = NoType /\ rfirst = NoType /\ rround = 0
    /\ pipe = NoPipe

\* f.render(src)
RenderFunc ==
    /\ pc = "func"
    /\ LET out == InterfaceFunc_render(func) IN
       IF Panicked(out)
       THEN pc' = "panicked" /\ raw' = <<>>
       ELSE pc' = "done" /\ raw' = raw \o out
    /\ UNCHANGED <<doc, build, ti, func, fl, rin, rcur, rfirst, rround, pipe>>

NextFunc == RenderFunc

SpecFunc == InitFunc /\ [][NextFunc]_vars

\* The ABI parameters the declared parameters are to expand to.
ElementText(ty) ==
    LET r == resolve(ty) IN
    IF r.k = "Array" THEN TypeText(r.to) ELSE "u8"

ExpectedParam(p) ==
    CASE passed_by(p.type_) = "PointerLengthPair" ->
            << [name |-> p.name \o "_ptr", type |-> "*const " \o ElementText(p.type_)],
               [name |-> p.name \o "_len", type |-> "usize"] >>
      [] passed_by(p.type_) = "Pointer" ->
            << [name |-> Escaped(p.name), type |-> "*mut " \o TypeText(p.type_)] >>
      [] passed_by(p.type_) = "Value" ->
            << [name |-> Escaped(p.name), type |-> TypeText(p.type_)] >>

RECURSIVE ExpectedParams(_)
ExpectedParams(ps) ==
    IF ps = <<>> THEN <<>> ELSE ExpectedParam(Head(ps)) \o ExpectedParams(Tail(ps))

\* C4: with no result the declaration has no return type, unless the function
\* is proc_exit, which returns `!`; with n >= 1 results the return type is the
\* by-value type of the first, and results 2..n are exactly n-1 out-parameters
\* `name: *mut Type` after all declared parameters, in declared order.
C4_ResultConvention ==
    pc = "done" =>
        LET n == Len(func.results)
            abi == AbiParams(raw, 1)
            ret == ReturnPart(raw, 1)
            np == Len(ParamNames(func.params))
        IN  /\ n = 0 =>
                /\ ret = (IF func.name = "proc_exit" THEN <<" -> !">> ELSE <<>>)
                /\ Len(abi) = np
            /\ n >= 1 =>
                /\ Join(ret) = " -> " \o TypeText(func.results[1].type_)
                /\ Len(abi) = np + n - 1
                /\ \A i \in 2..n :
                      abi[np + i - 1]
                          = [name |-> Escaped(func.results[i].name),
                             type |-> "*mut " \o TypeText(func.results[i].type_)]

\* A rendered function with three results and a declared parameter.
C4_Witness ==
    /\ pc = "done"
    /\ Len(func.results) = 3
    /\ Len(func.params) >= 1
    /\ Len(AbiParams(raw, 1)) = 4

\* C5: each pointer+length-pair parameter (a string or an array, directly or
\* through aliases) expands to `<name>_ptr: *const Element` then
\* `<name>_len: usize`, Element being u8 for a string and the element type for
\* an array; every other parameter expands to one ABI parameter; the ABI
\* parameters follow the declared order.
C5_PairExpansion ==
    pc = "done" =>
        LET abi == AbiParams(raw, 1)
            want == ExpectedParams(func.params)
        IN  /\ Len(abi) >= Len(want)
            /\ SubSeq(abi, 1, Len(want)) = want

\* A rendered function whose parameters are a string behind two aliases and
\* an array behind an alias.
C5_Witness ==
    /\ pc = "done"
    /\ Len(func.params) = 2
    /\ func.params[1].type_ = Ident("path2")
    /\ func.params[2].type_ = Ident("ciovec_array")
    /\ Len(AbiParams(raw, 1)) >= 4

(***************************************************************************)
(* impl Render for FlagsDatatype, applied to one datatype (SpecFlags).     *)
(***************************************************************************)
\* n variant names; which names they are depends on s.
FlagNames(n, s) == [i \in 1..n |-> IF (i + s) % 2 = 0 THEN "fd_read" ELSE "x"]

FlagsInputs ==
    {Dt("rights", Flags(r, FlagNames(n, s))) : r \in IntReprs, n \in 0..MaxFlags, s \in {0, 1}}

BitWidth(r) ==
    CASE r = "U8" -> 8 [] r = "U16" -> 16 [] r = "U32" -> 32 [] r = "U64" -> 64

InitFlags ==
    /\ doc = NoDoc
    /\ build \in Builds
    /\ fl \in FlagsInputs
    /\ pc = "flags"
    /\ ti = 0
    /\ raw = <<>>
    /\ func = NoFunc
    /\ rin = NoType /\ rcur = NoType /\ rfirst = NoType /\ rround = 0
    /\ pipe = NoPipe

\* f.render(src)
RenderFlags ==
    /\ pc = "flags"
    /\ LET out == FlagsDatatype_render(fl, build) IN
       IF Panicked(out)
       THEN pc' = "panicked" /\ raw' = <<>>
       ELSE pc' = "done" /\ raw' = raw \o out
    /\ UNCHANGED <<doc, build, ti, func, fl, rin, rcur, rfirst, rround, pipe>>

NextFlags == RenderFlags

SpecFlags == InitFlags /\ [][NextFlags]_vars

\* The values of the constants the text declares, in order.
FlagValues(src) == After(src, {"_t = 0x"})

\* C2 as claimed: the render of a Flags datatype with more variants than its
\* representation has bits does not complete.
C2_AsClaimed ==
    pc = "done" => Len(fl.variant.flags) <= BitWidth(fl.variant.repr)

\* C3 as claimed: the constant of the variant at position i < w is 1 shifted
\* left by i, whatever its name.
C3_AsClaimed ==
    pc = "done" =>
        \A i \in 0..(Len(fl.variant.flags) - 1) :
            i < BitWidth(fl.variant.repr) => FlagValues(raw)[i + 1] = LowerHexOfBit(i)

(***************************************************************************)
(* fn resolve, one activation per step (SpecResolve).  resolve does not    *)
(* look at where its argument comes from, so it is given every alias table *)
(* over a few names, the cyclic ones the parser would reject among them.   *)
(* The recursive call is the last thing an activation does; the depth of   *)
(* the call stack is not modelled.                                         *)
(***************************************************************************)
AliasNames == <<"a", "b", "c", "d", "e">>

ResolveNames == {AliasNames[i] : i \in 1..NumAliases}

ResolveVariants ==
    {Alias(t) : t \in {Ident(n) : n \in ResolveNames} \cup {U32, Array(U8), Pointer(Ident("a"))}}
    \cup {Handle}

\* Every table in which no alias names itself.
ResolveDocs ==
    {[datatypes |-> [i \in 1..NumAliases |-> Dt(AliasNames[i], v[i])], modules |-> <<>>] :
        v \in {w \in [1..NumAliases -> ResolveVariants] :
                  \A i \in 1..NumAliases : w[i] # Alias(Ident(AliasNames[i]))}}

ResolveInputs ==
    {Ident(n) : n \in ResolveNames}
    \cup {U32, Array(U8), Pointer(Ident("a")), ConstPointer(Ident("a"))}

InitResolve ==
    /\ doc \in ResolveDocs
    /\ build = "debug"
    /\ rin \in ResolveInputs
    /\ rcur = rin
    /\ rfirst = NoType
    /\ rround = 1
    /\ pc = "resolve"
    /\ ti = 0
    /\ raw = <<>>
    /\ func = NoFunc /\ fl = NoFlags
    /\ pipe = NoPipe

\* return resolve(&a.to);
ResolveCall ==
    /\ pc = "resolve"
    /\ resolveStep(rcur).call
    /\ rcur' = resolveStep(rcur).ty
    /\ UNCHANGED <<doc, build, pc, ti, raw, func, fl, rin, rfirst, rround, pipe>>

\* return ty;
ResolveReturn ==
    /\ pc = "resolve"
    /\ ~resolveStep(rcur).call
    /\ rcur' = resolveStep(rcur).ty
    /\ rfirst' = IF rround = 1 THEN resolveStep(rcur).ty ELSE rfirst
    /\ pc' = "returned"
    /\ UNCHANGED <<doc, build, ti, raw, func, fl, rin, rround, pipe>>

\* resolve applied to what resolve returned.
ResolveAgain ==
    /\ pc = "returned"
    /\ rround = 1
    /\ rround' = 2
    /\ rcur' = rfirst
    /\ pc' = "resolve"
    /\ UNCHANGED <<doc, build, ti, raw, func, fl, rin, rfirst, pipe>>

NextResolve == ResolveCall \/ ResolveReturn \/ ResolveAgain

SpecResolve == InitResolve /\ [][NextResolve]_vars

\* An activation that can take its step takes it.
FairSpecResolve == SpecResolve /\ WF_vars(NextResolve)

IsAliasIdent(ty) == ty.k = "Ident" /\ Datatype(ty.name).variant.kind = "Alias"

\* The first element of the chain of ty that is no Ident of an alias, as a
\* one-element sequence; empty when the first n+1 elements all are.
RECURSIVE ChainEnd(_, _)
ChainEnd(ty, n) ==
    IF ~IsAliasIdent(ty) THEN <<ty>>
    ELSE IF n = 0 THEN <<>>
    ELSE ChainEnd(Datatype(ty.name).variant.to, n - 1)

\* A chain over NumAliases datatypes with no cycle ends within NumAliases links.
Acyclic(ty) == ChainEnd(ty, NumAliases) # <<>>

\* C8 as claimed: resolve returns on every input, a cyclic alias chain included.
C8_AsClaimed == <>(pc = "returned")

\* C9: on an acyclic chain resolve returns the first element that is not an
\* Ident naming an alias; the result is never an Ident of an alias, an input
\* that is not an Ident of an alias is returned unchanged, and
\* resolve(resolve(t)) = resolve(t).
C9_Resolve ==
    (pc = "returned" /\ Acyclic(rin)) =>
        /\ rfirst = ChainEnd(rin, NumAliases)[1]
        /\ ~IsAliasIdent(rfirst)
        /\ ~IsAliasIdent(rin) => rfirst = rin
        /\ rround = 2 => rcur = rfirst

\* resolve has returned twice on a chain of at least two aliases.
C9_Witness ==
    /\ pc = "returned"
    /\ rround = 2
    /\ Acyclic(rin)
    /\ IsAliasIdent(rin)
    /\ IsAliasIdent(Datatype(rin.name).variant.to)

(***************************************************************************)
(* generate, lines 30-50: the exchange with the rustfmt subprocess         *)
(* (SpecPipe).  Bytes are counted, not told apart.  The child is outside   *)
(* the program: it either reads its whole input before it writes           *)
(* ("buffering", what rustfmt does with standard input) or writes what it  *)
(* has read before it reads on ("streaming").                              *)
(***************************************************************************)
FmtModes == {"buffering", "streaming"}

\* Command::new("rustfmt").stdin(Stdio::piped()).stdout(Stdio::piped()).spawn()
Spawned(n, ci, co, m) ==
    [gen |-> "write_all",   \* where generate is
     left |-> n,            \* bytes of raw not yet written
     stdin |-> 0,           \* bytes in the child's stdin pipe
     stdinOpen |-> TRUE,    \* generate holds the write end
     stdout |-> 0,          \* bytes in the child's stdout pipe
     ret |-> 0,             \* bytes read into ret
     fmt |-> "reading",     \* where the child is
     held |-> 0,            \* input the child keeps until end of input
     pending |-> 0,         \* output the child has still to write
     eof |-> FALSE,         \* the child has seen the end of its input
     ok |-> TRUE,           \* the child's exit status is success
     capIn |-> ci, capOut |-> co, mode |-> m]

InitPipe ==
    /\ \E n \in 0..MaxText, ci \in 1..MaxCap, co \in 1..MaxCap, m \in FmtModes :
          pipe = Spawned(n, ci, co, m)
    /\ doc = NoDoc
    /\ build = "debug"
    /\ pc = "rustfmt"
    /\ ti = 0
    /\ raw = <<>>
    /\ func = NoFunc /\ fl = NoFlags
    /\ rin = NoType /\ rcur = NoType /\ rfirst = NoType /\ rround = 0

PipeOnly == UNCHANGED <<doc, build, pc, ti, raw, func, fl, rin, rcur, rfirst, rround>>

\* write_all: one write of as many bytes as the pipe takes, at least one.
GenWrite ==
    /\ pipe.gen = "write_all"
    /\ pipe.left > 0
    /\ \E k \in 1..pipe.left :
          /\ pipe.stdin + k <= pipe.capIn
          /\ pipe' = [pipe EXCEPT !.left = @ - k, !.stdin = @ + k]
    /\ PipeOnly

\* write_all has written everything; the ChildStdin taken out of the child is
\* a temporary and is dropped with the statement, which closes the pipe.
GenWriteDone ==
    /\ pipe.gen = "write_all"
    /\ pipe.left = 0
    /\ pipe' = [pipe EXCEPT !.gen = "read_to_string", !.stdinOpen = FALSE]
    /\ PipeOnly

\* read_to_string: one read.
GenRead ==
    /\ pipe.gen = "read_to_string"
    /\ pipe.stdout > 0
    /\ \E k \in 1..pipe.stdout :
          pipe' = [pipe EXCEPT !.stdout = @ - k, !.ret = @ + k]
    /\ PipeOnly

\* read_to_string: end of file, the child has closed its stdout.
GenReadDone ==
    /\ pipe.gen = "read_to_string"
    /\ pipe.stdout = 0
    /\ pipe.fmt = "exited"
    /\ pipe' = [pipe EXCEPT !.gen = "wait"]
    /\ PipeOnly

\* let status = rustfmt.wait().unwrap(); assert!(status.success()); return ret;
GenWait ==
    /\ pipe.gen = "wait"
    /\ pipe.fmt = "exited"
    /\ pipe' = [pipe EXCEPT !.gen = IF pipe.ok THEN "done" ELSE "panicked"]
    /\ PipeOnly

\* The child reads a byte of its input.
FmtRead ==
    /\ pipe.fmt = "reading"
    /\ pipe.stdin > 0
    /\ pipe' = IF pipe.mode = "buffering"
               THEN [pipe EXCEPT !.stdin = @ - 1, !.held = @ + 1]
               ELSE [pipe EXCEPT !.stdin = @ - 1, !.pending = @ + 1, !.fmt = "writing"]
    /\ PipeOnly

\* The child reads the end of its input.
FmtEof ==
    /\ pipe.fmt = "reading"
    /\ pipe.stdin = 0
    /\ ~pipe.stdinOpen
    /\ pipe' = [pipe EXCEPT !.eof = TRUE, !.fmt = "writing", !.pending = pipe.held, !.held = 0]
    /\ PipeOnly

\* The child writes a byte of its output.
FmtWrite ==
    /\ pipe.fmt = "writing"
    /\ pipe.pending > 0
    /\ pipe.stdout < pipe.capOut
    /\ pipe' = [pipe EXCEPT !.pending = @ - 1, !.stdout = @ + 1,
                            !.fmt = IF pipe.pending = 1 /\ ~pipe.eof THEN "reading" ELSE "writing"]
    /\ PipeOnly

\* The child exits, which closes its stdout.
FmtExit ==
    /\ pipe.fmt = "writing"
    /\ pipe.eof
    /\ pipe.pending = 0
    /\ \E ok \in BOOLEAN : pipe' = [pipe EXCEPT !.fmt = "exited", !.ok = ok]
    /\ PipeOnly

NextPipe ==
    \/ GenWrite \/ GenWriteDone \/ GenRead \/ GenReadDone \/ GenWait
    \/ FmtRead \/ FmtEof \/ FmtWrite \/ FmtExit

SpecPipe == InitPipe /\ [][NextPipe]_vars

GenBlockedWriting ==
    pipe.gen = "write_all" /\ pipe.left > 0 /\ pipe.stdin = pipe.capIn

FmtBlockedWriting ==
    pipe.fmt = "writing" /\ pipe.pending > 0 /\ pipe.stdout = pipe.capOut

\* C1 as claimed: generate is never blocked writing the child's stdin while
\* the child is blocked writing its stdout.
C1_AsClaimed == ~(GenBlockedWriting /\ FmtBlockedWriting)

====
